---- MODULE Spec2Model ----
(***************************************************************************)
(* Model of insurance_dashboard.py: one Streamlit session.  A file is      *)
(* uploaded, the script body runs top to bottom on every interaction       *)
(* (widget change or button click) and either completes or ends in the     *)
(* outer except handler.  Clicking "Generate PDF Report" additionally runs *)
(* the report block of the same script run.                                *)
(*                                                                         *)
(* Cells are optional values: <<>> is a null cell (NaN / NaT), <<v>> holds *)
(* v.  A raw cell whose text cannot be parsed has two entries.  A          *)
(* timestamp is <<yearmonth, day, timeOfDay>>, a date is <<yearmonth,      *)
(* day>>.  Premiums are integers.  The widget, plotting and document        *)
(* libraries are external: the widgets are taken to accept the bounds the  *)
(* sidebar seeds them with and to return values within them, the on-screen *)
(* charts to render, and a step of the report block may fail.              *)
(* The table library's default sort does not fix the order of equal        *)
(* values; tie_order is the order the build of the session leaves them in. *)
(***************************************************************************)
EXTENDS Integers, Sequences, FiniteSets, TLC

VARIABLES df, widgets, out, interactions, tie_order

vars == <<df, widgets, out, interactions, tie_order>>

-----------------------------------------------------------------------------
(* Bounds of the explored inputs *)

\* longest table built from the sample rows
MaxRows == 2

\* number of user interactions (widget changes, button clicks) after the upload
MaxInteractions == 1

-----------------------------------------------------------------------------
(* Program constants *)

\* .head(10) of the insurer / manager / branch rankings
RankingTopN == 10

\* .head(8) of the product distribution
DistributionTopN == 8

CategoryCol == "Category"
InsurerCol == "Insurer Name"
AgentCol == "Agent Name"
BranchCol == "Branch name"
ManagerCol == "Manager Name"
ProductCol == "Product"
DateCol == "Issued Date"
PremiumCol == "Commissionable Premium"

\* the five columns that get a multiselect filter, in script order
FilterDims == <<CategoryCol, InsurerCol, AgentCol, BranchCol, ManagerCol>>

Columns == {CategoryCol, InsurerCol, AgentCol, BranchCol, ManagerCol,
            ProductCol, DateCol, PremiumCol}

All == "All"

-----------------------------------------------------------------------------
(* Cells, dates and ordering *)

None == <<>>

Some(x) == <<x>>

IsNull(cell) == Len(cell) = 0

Val(cell) == cell[1]

\* Timestamp comparison (year-month, day, time of day), as datetime64 compares
TsLeq(a, b) ==
    \/ a[1] < b[1]
    \/ a[1] = b[1] /\ a[2] < b[2]
    \/ a[1] = b[1] /\ a[2] = b[2] /\ a[3] <= b[3]

\* datetime.date comparison
DateLeq(a, b) ==
    \/ a[1] < b[1]
    \/ a[1] = b[1] /\ a[2] <= b[2]

\* Timestamp.date() / Series.dt.date: the time of day is discarded
DtDate(ts) == <<ts[1], ts[2]>>

\* Timestamp.replace(day=1): only the day field changes, the time of day stays
ReplaceDay1(ts) == <<ts[1], 1, ts[3]>>

\* Lexicographic order of the strings used as group keys (Python str order)
Alphabet == <<"Agt1", "Br1", "F01", "F02", "F03", "F04", "F05", "F06", "F07",
              "F08", "F09", "F10", "F11", "F12", "Health", "InsA", "InsB",
              "Life", "Mgr1", "Term", "ULIP">>

Rank(s) == CHOOSE i \in 1..Len(Alphabet) : Alphabet[i] = s

\* sum of a sequence of numbers (used by the properties)
RECURSIVE SeqSum(_)
SeqSum(s) == IF s = <<>> THEN 0 ELSE s[1] + SeqSum(Tail(s))

\* the elements of seq s as a set
Range(s) == {s[i] : i \in 1..Len(s)}

\* the first n entries (DataFrame.head / Series.head)
Head_n(s, n) == IF Len(s) <= n THEN s ELSE SubSeq(s, 1, n)

-----------------------------------------------------------------------------
(* Uploaded files *)

\* a raw cell whose text parses neither as a date nor as a number
Unparseable == <<"n/a", "text">>

RawRow(cat, ins, agt, br, mgr, prod, date, prem) ==
    (CategoryCol :> cat) @@ (InsurerCol :> ins) @@ (AgentCol :> agt) @@
    (BranchCol :> br) @@ (ManagerCol :> mgr) @@ (ProductCol :> prod) @@
    (DateCol :> date) @@ (PremiumCol :> prem)

\* Sample rows the explored tables are built from
SampleRows == <<
    RawRow(Some("Health"), Some("InsA"), Some("Agt1"), Some("Br1"), Some("Mgr1"),
           Some("Term"), Some(<<202403, 1, 0>>), Some(10)),
    RawRow(Some("Health"), Some("InsB"), Some("Agt1"), Some("Br1"), Some("Mgr1"),
           Some("Term"), Some(<<202403, 20, 1>>), Some(5)),
    RawRow(Some("Life"), Some("InsA"), None, Some("Br1"), Some("Mgr1"),
           Some("ULIP"), Some(<<202402, 10, 0>>), Some(20)),
    RawRow(Some("Life"), Some("InsB"), Some("Agt1"), None, None,
           None, Unparseable, Some(5)),
    RawRow(None, None, Some("Agt1"), Some("Br1"), Some("Mgr1"),
           Some("Term"), Some(<<202403, 20, 1>>), Unparseable) >>

\* every table of at most MaxRows sample rows, in any order, with repetition
SampleTables ==
    UNION { { [i \in 1..n |-> SampleRows[f[i]]] : f \in [1..n -> 1..Len(SampleRows)] }
            : n \in 0..MaxRows }

\* a file that holds only the columns cols of table t
Project(t, cols) ==
    [columns |-> cols,
     rows |-> [i \in 1..Len(t) |-> [c \in Columns |-> IF c \in cols THEN t[i][c] ELSE None]]]

\* Explored uploads: every sample table with all columns, and the one-row and
\* the empty table with every subset of the columns
Uploads ==
    { Project(t, Columns) : t \in SampleTables } \cup
    { Project(t, cols) : t \in {<<>>, <<SampleRows[1]>>}, cols \in SUBSET Columns }

\* Row i of a long table with `groups` distinct keys: the key cycles through
\* F01, F02, ... (backwards: through the same keys from the last one down, so
\* that the keys are first met in descending key order); the key is the row's
\* value in every grouping column.  With flat premiums every row carries
\* premium 1 (all groups of equal size tie), otherwise row i carries premium i.
\* Every seventh row is dated in the month before the latest one.
LongRow(i, groups, flat, backwards) ==
    LET pos == (i - 1) % groups
        key == Alphabet[Rank("F01") + (IF backwards THEN groups - 1 - pos ELSE pos)]
    IN  RawRow(Some(key), Some(key), Some(key), Some(key), Some(key), Some(key),
               Some(<<IF i % 7 = 0 THEN 202402 ELSE 202403, 1 + (i % 3), 0>>),
               Some(IF flat THEN 1 ELSE i))

\* Long uploads: up to two more groups than the longest ranking keeps, and
\* enough rows for the latest month to hold more groups than it keeps
LongUploads ==
    { Project([i \in 1..n |-> LongRow(i, groups, flat, backwards)], Columns) :
        n \in 1..(RankingTopN + 3), groups \in 1..(RankingTopN + 2),
        flat \in BOOLEAN, backwards \in BOOLEAN }

\* pd.to_datetime(errors='coerce') / pd.to_numeric(errors='coerce') on one cell
Coerce(cell) == IF Len(cell) = 1 THEN cell ELSE None

\* lines 55-73: read the file, coerce the date column and the numeric column
ReadFile(file) ==
    [columns |-> file.columns,
     rows |-> [i \in 1..Len(file.rows) |->
                 [c \in Columns |->
                    IF c \in {DateCol, PremiumCol} /\ c \in file.columns
                    THEN Coerce(file.rows[i][c])
                    ELSE file.rows[i][c]]]]

NoFile == [columns |-> {}, rows |-> <<>>]

-----------------------------------------------------------------------------
(* Sidebar, lines 77-121 *)

\* df[col].dropna() as a set of values
NonNull(rows, col) == { Val(rows[i][col]) : i \in {j \in 1..Len(rows) : ~IsNull(rows[j][col])} }

MinTs(S) == CHOOSE x \in S : \A y \in S : TsLeq(x, y)

MaxTs(S) == CHOOSE x \in S : \A y \in S : TsLeq(y, x)

MinNum(S) == CHOOSE x \in S : \A y \in S : x <= y

MaxNum(S) == CHOOSE x \in S : \A y \in S : y <= x

SelectedName(col) == "selected_" \o col

\* the Python names the sidebar block binds: a multiselect per present filter
\* column, date_range / premium_range only when the column has a non-null cell
SidebarNames(d) ==
    { SelectedName(FilterDims[k]) : k \in {j \in 1..Len(FilterDims) : FilterDims[j] \in d.columns} }
    \cup (IF DateCol \in d.columns /\ NonNull(d.rows, DateCol) # {} THEN {"date_range"} ELSE {})
    \cup (IF PremiumCol \in d.columns /\ NonNull(d.rows, PremiumCol) # {} THEN {"premium_range"} ELSE {})

\* options of a multiselect: ['All'] + sorted(unique non-null values)
Options(d, col) == {All} \cup NonNull(d.rows, col)

\* widget values before any user interaction
DefaultWidgets(d) ==
    [selected |-> [c \in Range(FilterDims) |-> {All}],
     date_range |->
        IF "date_range" \in SidebarNames(d)
        THEN <<DtDate(MinTs(NonNull(d.rows, DateCol))), DtDate(MaxTs(NonNull(d.rows, DateCol)))>>
        ELSE <<>>,
     premium_range |->
        IF "premium_range" \in SidebarNames(d)
        THEN <<MinNum(NonNull(d.rows, PremiumCol)), MaxNum(NonNull(d.rows, PremiumCol))>>
        ELSE <<>>]

-----------------------------------------------------------------------------
(* Apply filters, lines 123-151 *)

\* filtered_df[filtered_df[col].isin(selection)]: a null key is in no selection
IsinFilter(rows, col, selection) ==
    SelectSeq(rows, LAMBDA r : ~IsNull(r[col]) /\ Val(r[col]) \in selection)

\* Variant: any selection other than "All" alone constrains the table
CategoricalFilterUnlessOnlyAll(columns, w, rows, col) ==
    IF col \in columns /\ w.selected[col] # {All}
    THEN IsinFilter(rows, col, w.selected[col])
    ELSE rows

\* if col in df.columns and 'All' not in selected: keep the members
CategoricalFilter(columns, w, rows, col) ==
    IF col \in columns /\ All \notin w.selected[col]
    THEN IsinFilter(rows, col, w.selected[col])
    ELSE rows

RECURSIVE CategoricalFilters(_, _, _, _)
CategoricalFilters(columns, w, rows, k) ==
    IF k > Len(FilterDims) THEN rows
    ELSE CategoricalFilters(columns, w, CategoricalFilter(columns, w, rows, FilterDims[k]), k + 1)

\* Variant: the bounds are compared as timestamps at midnight, so the time of
\* day of the cell is not discarded
DateInRangeMidnight(cell, range) ==
    /\ ~IsNull(cell)
    /\ TsLeq(<<range[1][1], range[1][2], 0>>, Val(cell))
    /\ TsLeq(Val(cell), <<range[2][1], range[2][2], 0>>)

\* (dt.date >= date_range[0]) & (dt.date <= date_range[1]); NaT compares False
DateInRange(cell, range) ==
    /\ ~IsNull(cell)
    /\ DateLeq(range[1], DtDate(Val(cell)))
    /\ DateLeq(DtDate(Val(cell)), range[2])

\* Variant: the upper bound is exclusive
PremiumInRangeExclusive(cell, range) ==
    /\ ~IsNull(cell)
    /\ range[1] <= Val(cell)
    /\ Val(cell) < range[2]

\* (premium >= premium_range[0]) & (premium <= premium_range[1]); NaN compares False
PremiumInRange(cell, range) ==
    /\ ~IsNull(cell)
    /\ range[1] <= Val(cell)
    /\ Val(cell) <= range[2]

\* Variant: the slice of matching rows starts one row late
DateFilterOffByOne(columns, w, rows) ==
    IF DateCol \in columns /\ Len(w.date_range) = 2
    THEN LET kept == SelectSeq(rows, LAMBDA r : DateInRange(r[DateCol], w.date_range))
         IN  IF kept = <<>> THEN kept ELSE Tail(kept)
    ELSE rows

\* Variant: a single endpoint already acts as the start of the interval
DateFilterFromStart(columns, w, rows) ==
    IF DateCol \in columns /\ Len(w.date_range) >= 1
    THEN SelectSeq(rows, LAMBDA r :
             /\ ~IsNull(r[DateCol])
             /\ DateLeq(w.date_range[1], DtDate(Val(r[DateCol])))
             /\ Len(w.date_range) = 2 => DateLeq(DtDate(Val(r[DateCol])), w.date_range[2]))
    ELSE rows

\* lines 141-145: active only when the control holds both endpoints
DateFilter(columns, w, rows) ==
    IF DateCol \in columns /\ Len(w.date_range) = 2
    THEN SelectSeq(rows, LAMBDA r : DateInRange(r[DateCol], w.date_range))
    ELSE rows

\* lines 147-151
PremiumFilter(columns, w, rows) ==
    IF PremiumCol \in columns
    THEN SelectSeq(rows, LAMBDA r : PremiumInRange(r[PremiumCol], w.premium_range))
    ELSE rows

\* Variant: the rows that pass come out in reverse order
FilterRowsReversed(columns, w, rows) ==
    LET kept == PremiumFilter(columns, w,
                    DateFilter(columns, w,
                        CategoricalFilters(columns, w, rows, 1)))
    IN  [i \in 1..Len(kept) |-> kept[Len(kept) + 1 - i]]

\* the filter block on rows, given the criteria w and the columns of df
FilterRows(columns, w, rows) ==
    PremiumFilter(columns, w,
        DateFilter(columns, w,
            CategoricalFilters(columns, w, rows, 1)))

\* The filter block as the script runs it: reading date_range or premium_range
\* when the sidebar did not bind it raises NameError.
ApplyFilters(d, w) ==
    IF DateCol \in d.columns /\ "date_range" \notin SidebarNames(d)
    THEN [err |-> "name 'date_range' is not defined", rows |-> <<>>]
    ELSE IF PremiumCol \in d.columns /\ "premium_range" \notin SidebarNames(d)
    THEN [err |-> "name 'premium_range' is not defined", rows |-> <<>>]
    ELSE [err |-> "", rows |-> FilterRows(d.columns, w, d.rows)]

-----------------------------------------------------------------------------
(* Latest month, lines 155-169 *)

\* rows with latest_month_start <= Issued Date <= latest_month (NaT compares False)
InWindow(cell, start, end) ==
    /\ ~IsNull(cell)
    /\ TsLeq(start, Val(cell))
    /\ TsLeq(Val(cell), end)

\* label is <<yearmonth>> for strftime('%B %Y') and <<>> for "Latest Period".
\* With no non-null date max() is NaT, NaT.replace(day=1) is NaT, the
\* comparisons select no row and NaT.strftime raises ValueError.
LatestMonth(columns, filtered) ==
    IF DateCol \in columns
    THEN IF NonNull(filtered, DateCol) = {}
         THEN [err |-> "NaTType does not support strftime", rows |-> <<>>,
               label |-> <<>>, window |-> <<>>]
         ELSE LET latest_month == MaxTs(NonNull(filtered, DateCol))
                  latest_month_start == ReplaceDay1(latest_month)
              IN  [err |-> "",
                   rows |-> SelectSeq(filtered,
                              LAMBDA r : InWindow(r[DateCol], latest_month_start, latest_month)),
                   label |-> <<latest_month[1]>>,
                   window |-> <<latest_month_start, latest_month>>]
    ELSE [err |-> "", rows |-> filtered, label |-> <<>>, window |-> <<>>]

-----------------------------------------------------------------------------
(* Key metrics and aggregations, lines 171-324 *)

\* Series.sum(): nulls are skipped, the empty sum is 0
RECURSIVE PremiumSum(_)
PremiumSum(rows) ==
    IF rows = <<>> THEN 0
    ELSE (IF IsNull(rows[1][PremiumCol]) THEN 0 ELSE Val(rows[1][PremiumCol]))
         + PremiumSum(Tail(rows))

\* df[PremiumCol].sum() if the column is present else 0
PremiumMetric(columns, rows) == IF PremiumCol \in columns THEN PremiumSum(rows) ELSE 0

\* a set of keys as a sequence in ascending key order (groupby sorts its keys)
RECURSIVE SortKeys(_)
SortKeys(S) ==
    IF S = {} THEN <<>>
    ELSE LET m == CHOOSE x \in S : \A y \in S : Rank(x) <= Rank(y)
         IN  <<m>> \o SortKeys(S \ {m})

\* groupby(col)[PremiumCol].sum().reset_index(): one entry per non-null key
GroupBySum(rows, col) ==
    LET keys == SortKeys(NonNull(rows, col))
    IN  [i \in 1..Len(keys) |->
            [key |-> keys[i],
             value |-> PremiumSum(SelectSeq(rows,
                          LAMBDA r : ~IsNull(r[col]) /\ Val(r[col]) = keys[i]))]]

\* remove entry i of a sequence
DropAt(s, i) == SubSeq(s, 1, i - 1) \o SubSeq(s, i + 1, Len(s))

\* sort_values(ascending=False) sorts with the library's default 'quicksort',
\* which does not promise an order among equal values: the order depends on
\* the numeric library build the session runs on.  Two outcomes are explored:
\* equal values keep the order they had, or come out in the reverse of it.
TieOrders == {"kept", "reversed"}

\* sort_values(ascending=False): descending by value
RECURSIVE SortValuesDesc(_)
SortValuesDesc(s) ==
    IF s = <<>> THEN <<>>
    ELSE LET i == CHOOSE j \in 1..Len(s) :
                    /\ \A k \in 1..Len(s) : s[k].value <= s[j].value
                    /\ IF tie_order = "kept"
                       THEN \A k \in 1..(j - 1) : s[k].value < s[j].value
                       ELSE \A k \in (j + 1)..Len(s) : s[k].value < s[j].value
         IN  <<s[i]>> \o SortValuesDesc(DropAt(s, i))

\* the non-null values of a column in order of first appearance
RECURSIVE FirstSeen(_, _, _)
FirstSeen(rows, col, seen) ==
    IF rows = <<>> THEN <<>>
    ELSE IF IsNull(rows[1][col]) \/ Val(rows[1][col]) \in seen
         THEN FirstSeen(Tail(rows), col, seen)
         ELSE <<Val(rows[1][col])>> \o FirstSeen(Tail(rows), col, seen \cup {Val(rows[1][col])})

\* Series.value_counts(): count per non-null value, descending by count
ValueCounts(rows, col) ==
    LET keys == FirstSeen(rows, col, {})
    IN  SortValuesDesc(
            [i \in 1..Len(keys) |->
                [key |-> keys[i],
                 value |-> Len(SelectSeq(rows,
                              LAMBDA r : ~IsNull(r[col]) /\ Val(r[col]) = keys[i]))]])

\* dt.to_period('M').astype(str): the year-month, and 'NaT' for a null date;
\* 'NaT' sorts after every 'YYYY-MM' label and is modelled as month 999999
MonthLabel(cell) == IF IsNull(cell) THEN 999999 ELSE Val(cell)[1]

\* lines 316-319: premium per month label, ascending by label
MonthlyTrend(rows) ==
    LET labels == { MonthLabel(rows[i][DateCol]) : i \in 1..Len(rows) }
        RECURSIVE Asc(_)
        Asc(S) == IF S = {} THEN <<>>
                  ELSE LET m == CHOOSE x \in S : \A y \in S : x <= y
                       IN  <<m>> \o Asc(S \ {m})
        sorted == Asc(labels)
    IN  [i \in 1..Len(sorted) |->
            [key |-> sorted[i],
             value |-> PremiumSum(SelectSeq(rows,
                          LAMBDA r : MonthLabel(r[DateCol]) = sorted[i]))]]

\* premium by category, not truncated (lines 199-200, 261-262)
CategoryChart(rows) == SortValuesDesc(GroupBySum(rows, CategoryCol))

\* Variant: the ranking keeps one group too few
RankingChartOffByOne(rows, col) ==
    Head_n(SortValuesDesc(GroupBySum(rows, col)), RankingTopN - 1)

\* top 10 by premium (lines 210-211, 233-234, 243-244 and the overall twins)
RankingChart(rows, col) == Head_n(SortValuesDesc(GroupBySum(rows, col)), RankingTopN)

\* Variant: the product distribution is cut like a ranking
ProductChartTopTen(rows) == Head_n(ValueCounts(rows, ProductCol), RankingTopN)

\* value_counts().head(8) (lines 223, 285)
ProductChart(rows) == Head_n(ValueCounts(rows, ProductCol), DistributionTopN)

\* the chart tables, by the Python name the script binds them to, in the order
\* the report block reads them (lines 417-470)
ChartVars == <<"category_latest", "category_overall", "insurer_latest", "insurer_overall",
               "product_latest", "product_overall", "manager_latest", "manager_overall",
               "branch_latest", "branch_overall", "monthly_data">>

\* the column whose presence, besides the premium column, gates each chart
ChartCol(name) ==
    CASE name \in {"category_latest", "category_overall"} -> CategoryCol
      [] name \in {"insurer_latest", "insurer_overall"} -> InsurerCol
      [] name \in {"product_latest", "product_overall"} -> ProductCol
      [] name \in {"manager_latest", "manager_overall"} -> ManagerCol
      [] name \in {"branch_latest", "branch_overall"} -> BranchCol
      [] OTHER -> DateCol

LatestCharts == {"category_latest", "insurer_latest", "product_latest",
                 "manager_latest", "branch_latest"}

\* the `if col in df.columns and 'Commissionable Premium' in df.columns` guards;
\* the product chart needs the Product column only
ChartBound(columns, name) ==
    /\ ChartCol(name) \in columns
    /\ name \in {"product_latest", "product_overall"} \/ PremiumCol \in columns

ChartValue(name, rows) ==
    CASE name \in {"category_latest", "category_overall"} -> CategoryChart(rows)
      [] name \in {"product_latest", "product_overall"} -> ProductChart(rows)
      [] name = "monthly_data" -> MonthlyTrend(rows)
      [] OTHER -> RankingChart(rows, ChartCol(name))

\* every chart block of the page, lines 196-324; a skipped block binds nothing
Charts(columns, latest_month_df, overall_df) ==
    [name \in Range(ChartVars) |->
        IF ChartBound(columns, name)
        THEN ChartValue(name, IF name \in LatestCharts THEN latest_month_df ELSE overall_df)
        ELSE <<>>]

ChartNames(columns) == { name \in Range(ChartVars) : ChartBound(columns, name) }

-----------------------------------------------------------------------------
(* Report generation, lines 350-570 *)

\* Variant: every dimension page shows the overall chart above the latest one
PdfPagesOverallFirst == <<
    [title |-> "Insurance Dashboard Report", images |-> <<>>],
    [title |-> "Category", images |-> <<"category_overall", "category_latest">>],
    [title |-> "Insurers", images |-> <<"insurer_overall", "insurer_latest">>],
    [title |-> "Products", images |-> <<"product_overall", "product_latest">>],
    [title |-> "Managers", images |-> <<"manager_overall", "manager_latest">>],
    [title |-> "Branches", images |-> <<"branch_overall", "branch_latest">>],
    [title |-> "Monthly Premium Trend", images |-> <<"monthly_data">>] >>

\* the pages in composition order, with the chart images each page embeds
PdfPages == <<
    [title |-> "Insurance Dashboard Report", images |-> <<>>],
    [title |-> "Category", images |-> <<"category_latest", "category_overall">>],
    [title |-> "Insurers", images |-> <<"insurer_latest", "insurer_overall">>],
    [title |-> "Products", images |-> <<"product_latest", "product_overall">>],
    [title |-> "Managers", images |-> <<"manager_latest", "manager_overall">>],
    [title |-> "Branches", images |-> <<"branch_latest", "branch_overall">>],
    [title |-> "Monthly Premium Trend", images |-> <<"monthly_data">>] >>

\* chart renders, page compositions and the final pdf.output / download button
PdfStepCount == Len(ChartVars) + Len(PdfPages) + 1

\* A log entry of the report block: a chart image rendered, or a page composed
\* with the images it embeds; the title page carries the generation timestamp
\* (stamped) and the three summary figures of lines 491-496.
NoPdf == [status |-> "none", error |-> "", log |-> <<>>, download |-> FALSE]

\* Variant: the handler offers what was assembled before the failure
PdfErrorPartial(msg, log) == [status |-> "error", error |-> msg, log |-> log, download |-> log # <<>>]

\* the handler of line 569: st.error with the exception text, no download button
PdfError(msg, log) == [status |-> "error", error |-> msg, log |-> log, download |-> FALSE]

ChartEvent(name) ==
    [kind |-> "chart", name |-> name, images |-> <<>>, stamped |-> FALSE, figures |-> <<>>]

\* figures: <<latest_premium, total_premium, len(overall_df)>>
PageEvent(k, figures) ==
    [kind |-> "page", name |-> PdfPages[k].title, images |-> PdfPages[k].images,
     stamped |-> (k = 1), figures |-> IF k = 1 THEN figures ELSE <<>>]

\* The try block of the report.  Step i of the block fails in the library
\* (matplotlib, fpdf, file system) when failAt = i; failAt = 0 is a run without
\* such a failure.  Reading a chart table that no chart block bound raises
\* NameError.  Any exception ends in the handler of line 569.
RECURSIVE RenderCharts(_, _, _, _)
RenderCharts(bound, failAt, i, log) ==
    IF i > Len(ChartVars) THEN [err |-> "", log |-> log]
    ELSE IF ChartVars[i] \notin bound
    THEN [err |-> "name '" \o ChartVars[i] \o "' is not defined", log |-> log]
    ELSE IF failAt = i
    THEN [err |-> "chart rendering failed", log |-> log]
    ELSE RenderCharts(bound, failAt, i + 1, Append(log, ChartEvent(ChartVars[i])))

RECURSIVE ComposePages(_, _, _, _)
ComposePages(failAt, k, log, figures) ==
    IF k > Len(PdfPages) THEN [err |-> "", log |-> log]
    ELSE IF failAt = Len(ChartVars) + k
    THEN [err |-> "document assembly failed", log |-> log]
    ELSE ComposePages(failAt, k + 1, Append(log, PageEvent(k, figures)), figures)

GeneratePdf(bound, failAt, figures) ==
    LET charts == RenderCharts(bound, failAt, 1, <<>>)
        pages == ComposePages(failAt, 1, charts.log, figures)
    IN  IF charts.err # "" THEN PdfError(charts.err, charts.log)
        ELSE IF pages.err # "" THEN PdfError(pages.err, pages.log)
        ELSE IF failAt = PdfStepCount THEN PdfError("document assembly failed", pages.log)
        ELSE [status |-> "ready", error |-> "", log |-> pages.log, download |-> TRUE]

-----------------------------------------------------------------------------
(* One run of the script body, lines 52-573 *)

NoCharts == [name \in Range(ChartVars) |-> <<>>]

NotRun ==
    [status |-> "none", error |-> "", names |-> {}, filtered_df |-> <<>>,
     latest_month_df |-> <<>>, label |-> <<>>, window |-> <<>>,
     latest_premium |-> 0, latest_policies |-> 0, total_premium |-> 0, total_policies |-> 0,
     charts |-> NoCharts, pdf |-> NoPdf]

\* `names` are the Python names bound when the run ends; a field whose name is
\* not bound was not computed and holds a placeholder.
RunScript(d, w, clicked, failAt) ==
    LET filtered == ApplyFilters(d, w)
        latest == LatestMonth(d.columns, filtered.rows)
        sidebar == SidebarNames(d)
    IN  IF filtered.err # ""
        THEN [NotRun EXCEPT !.status = "error", !.error = filtered.err, !.names = sidebar]
        ELSE IF latest.err # ""
        THEN [NotRun EXCEPT !.status = "error", !.error = latest.err,
                            !.names = sidebar \cup {"filtered_df", "latest_month_df"},
                            !.filtered_df = filtered.rows,
                            !.latest_month_df = latest.rows]
        ELSE [status |-> "ok", error |-> "",
              names |-> sidebar \cup {"filtered_df", "latest_month_df", "overall_df",
                                      "latest_premium", "total_premium"}
                        \cup ChartNames(d.columns),
              filtered_df |-> filtered.rows,
              latest_month_df |-> latest.rows,
              label |-> latest.label,
              window |-> latest.window,
              latest_premium |-> PremiumMetric(d.columns, latest.rows),
              latest_policies |-> Len(latest.rows),
              total_premium |-> PremiumMetric(d.columns, filtered.rows),
              total_policies |-> Len(filtered.rows),
              charts |-> Charts(d.columns, latest.rows, filtered.rows),
              pdf |-> IF clicked
                      THEN GeneratePdf(ChartNames(d.columns), failAt,
                                       <<PremiumMetric(d.columns, latest.rows),
                                         PremiumMetric(d.columns, filtered.rows),
                                         Len(filtered.rows)>>)
                      ELSE NoPdf]

-----------------------------------------------------------------------------
(* The session *)

\* no file yet, on a build whose sort leaves equal values in the given order
InitOn(orders) ==
    /\ df = NoFile
    /\ widgets = DefaultWidgets(NoFile)
    /\ out = NotRun
    /\ interactions = 0
    /\ tie_order \in orders

\* The session is explored on a build that keeps equal values in order: the
\* order of equal values is fixed for a session and only shows in the order of
\* tied chart entries, which is explored under SpecAgg.
Init == InitOn({"kept"})

Uploaded == out.status # "none"

\* a file is uploaded and parsed; the script runs with the default widget values
UploadFrom(files) ==
    /\ ~Uploaded
    /\ \E file \in files :
          /\ df' = ReadFile(file)
          /\ widgets' = DefaultWidgets(ReadFile(file))
          /\ out' = RunScript(ReadFile(file), DefaultWidgets(ReadFile(file)), FALSE, 0)
    /\ UNCHANGED <<interactions, tie_order>>

Upload == UploadFrom(Uploads)

\* pd.read_csv / pd.read_excel raises on a malformed file (handler of line 572)
UploadUnreadable ==
    /\ ~Uploaded
    /\ out' = [NotRun EXCEPT !.status = "error", !.error = "file could not be parsed"]
    /\ UNCHANGED <<df, widgets, interactions, tie_order>>

\* Variant: the rerun filters the table the previous run left on the page
InteractOnFiltered(w) ==
    /\ interactions < MaxInteractions
    /\ w # widgets
    /\ widgets' = w
    /\ out' = RunScript([df EXCEPT !.rows = out.filtered_df], w, FALSE, 0)
    /\ interactions' = interactions + 1
    /\ UNCHANGED <<df, tie_order>>

\* a widget value changes and the script reruns from its first line: the file
\* is read again and every name is rebound from the table and the widgets
Interact(w) ==
    /\ interactions < MaxInteractions
    /\ w # widgets
    /\ widgets' = w
    /\ out' = RunScript(df, w, FALSE, 0)
    /\ interactions' = interactions + 1
    /\ UNCHANGED <<df, tie_order>>

\* the user edits one multiselect; the script reruns
SelectFilter ==
    /\ Uploaded
    /\ \E k \in 1..Len(FilterDims) :
          /\ SelectedName(FilterDims[k]) \in SidebarNames(df)
          /\ \E selection \in SUBSET Options(df, FilterDims[k]) :
                Interact([widgets EXCEPT !.selected[FilterDims[k]] = selection])

\* dates the picker offers: between the observed min and max
PickableDates == { DtDate(ts) : ts \in NonNull(df.rows, DateCol) }

\* the user edits the date picker: a start date alone, or start <= end
SetDateRange ==
    /\ Uploaded
    /\ "date_range" \in SidebarNames(df)
    /\ \E a \in PickableDates :
          \/ Interact([widgets EXCEPT !.date_range = <<a>>])
          \/ \E b \in PickableDates :
                /\ DateLeq(a, b)
                /\ Interact([widgets EXCEPT !.date_range = <<a, b>>])

\* the user moves the slider handles: min <= low <= high <= max
SetPremiumRange ==
    /\ Uploaded
    /\ "premium_range" \in SidebarNames(df)
    /\ \E lo \in NonNull(df.rows, PremiumCol), hi \in NonNull(df.rows, PremiumCol) :
          /\ lo <= hi
          /\ Interact([widgets EXCEPT !.premium_range = <<lo, hi>>])

\* the button is on the page only if the previous run reached the export section
ClickGeneratePdf ==
    /\ out.status = "ok"
    /\ interactions < MaxInteractions
    /\ \E failAt \in 0..PdfStepCount :
          out' = RunScript(df, widgets, TRUE, failAt)
    /\ interactions' = interactions + 1
    /\ UNCHANGED <<df, widgets, tie_order>>

Next ==
    \/ Upload
    \/ UploadUnreadable
    \/ SelectFilter
    \/ SetDateRange
    \/ SetPremiumRange
    \/ ClickGeneratePdf

Spec == Init /\ [][Next]_vars

\* The aggregation pipeline alone: one upload of a long table, default
\* criteria, on a build of either tie order
InitAgg == InitOn(TieOrders)

UploadLong == UploadFrom(LongUploads)

NextAgg == UploadLong

SpecAgg == InitAgg /\ [][NextAgg]_vars

-----------------------------------------------------------------------------
(* Properties *)

\* the file was parsed into a table (the run is past line 58)
FileLoaded == Uploaded /\ out.error # "file could not be parsed"

\* the filter block ran to its end
Filtered == "filtered_df" \in out.names

\* C1: with the default criteria (every selection "All", full date and premium
\* ranges) the filtered table is the input table, rows and order unchanged,
\* also when cells of Issued Date or Commissionable Premium are null.
C1_DefaultCriteriaKeepTable ==
    (Filtered /\ widgets = DefaultWidgets(df)) => out.filtered_df = df.rows

\* C2: a run whose filtered table has no rows completes without an error and
\* reports total premium 0, total policies 0, latest-month premium and policy
\* count 0 and an empty result for every aggregation.
C2_EmptyResultIsValid ==
    (Filtered /\ out.filtered_df = <<>>) =>
        /\ out.status = "ok"
        /\ out.total_premium = 0 /\ out.total_policies = 0
        /\ out.latest_premium = 0 /\ out.latest_policies = 0
        /\ \A name \in Range(ChartVars) : out.charts[name] = <<>>

\* a date or numeric column that is present and has rows, none of them non-null
AllNull(col) == col \in df.columns /\ df.rows # <<>> /\ NonNull(df.rows, col) = {}

\* C3: a table whose Issued Date column or Commissionable Premium column is
\* present with every cell null still loads, filters and aggregates without a
\* user-visible error.
C3_AllNullColumnNoError ==
    (FileLoaded /\ (AllNull(DateCol) \/ AllNull(PremiumCol))) => out.status = "ok"

\* C4: whichever subset of the recognized columns the uploaded table holds, the
\* run from ingestion to the on-screen aggregations does not end in the error
\* state.
C4_RunCompletesForEveryColumnSubset ==
    FileLoaded => out.status = "ok"

\* the NameError messages of the report block
PdfNameErrors == { "name '" \o ChartVars[i] \o "' is not defined" : i \in 1..Len(ChartVars) }

\* C5: a column needed by a chart of the report being absent never puts report
\* generation into its error outcome: the chart is skipped without an error.
C5_MissingColumnSkipsReportChart ==
    out.pdf.error \notin PdfNameErrors

\* a date as one number, for comparing dates without the model's own order
DayNumber(d) == d[1] * 100 + d[2]

\* the constraints the current criteria put on a row, stated one by one
RowSatisfies(r) ==
    /\ \A k \in 1..Len(FilterDims) :
          (FilterDims[k] \in df.columns /\ All \notin widgets.selected[FilterDims[k]])
              => /\ Len(r[FilterDims[k]]) = 1
                 /\ r[FilterDims[k]][1] \in widgets.selected[FilterDims[k]]
    /\ (DateCol \in df.columns /\ Len(widgets.date_range) = 2)
          => /\ Len(r[DateCol]) = 1
             /\ DayNumber(widgets.date_range[1]) <= DayNumber(r[DateCol][1])
             /\ DayNumber(r[DateCol][1]) <= DayNumber(widgets.date_range[2])
    /\ PremiumCol \in df.columns
          => /\ Len(r[PremiumCol]) = 1
             /\ widgets.premium_range[1] <= r[PremiumCol][1]
             /\ r[PremiumCol][1] <= widgets.premium_range[2]

\* C6: the filtered table is exactly the input rows, in input order, that
\* satisfy all active constraints together: membership for every present
\* dimension whose selection lacks "All", the closed date interval, the closed
\* premium interval; a dimension at "All" or without its column removes no row.
C6_FilteredIsConjunction ==
    Filtered => out.filtered_df = SelectSeq(df.rows, RowSatisfies)

\* a selection without "All" is in force and removed some rows but not all
C6_Witness ==
    /\ Filtered
    /\ \E k \in 1..Len(FilterDims) :
          FilterDims[k] \in df.columns /\ All \notin widgets.selected[FilterDims[k]]
    /\ out.filtered_df # <<>>
    /\ Len(out.filtered_df) < Len(df.rows)

\* the date condition of C7 on one row: non-null, date portion within the bounds
DateKept(r) ==
    /\ Len(r[DateCol]) = 1
    /\ DayNumber(widgets.date_range[1]) <= r[DateCol][1][1] * 100 + r[DateCol][1][2]
    /\ r[DateCol][1][1] * 100 + r[DateCol][1][2] <= DayNumber(widgets.date_range[2])

\* C7: with the date filter active a row (that the other filters keep) is
\* retained if and only if its Issued Date is non-null and its date portion,
\* time of day discarded, lies within the bounds, both inclusive; rows with a
\* null Issued Date are dropped.
C7_DateFilterInclusive ==
    (Filtered /\ DateCol \in df.columns /\ Len(widgets.date_range) = 2) =>
        /\ out.filtered_df =
              SelectSeq(PremiumFilter(df.columns, widgets,
                            CategoricalFilters(df.columns, widgets, df.rows, 1)),
                        DateKept)
        /\ \A i \in 1..Len(out.filtered_df) : out.filtered_df[i][DateCol] # <<>>

\* a row dated on the upper bound's day at a later time of day is retained,
\* and a row with a null date was in the input
C7_Witness ==
    /\ Filtered /\ DateCol \in df.columns /\ Len(widgets.date_range) = 2
    /\ \E i \in 1..Len(out.filtered_df) :
          /\ DtDate(out.filtered_df[i][DateCol][1]) = widgets.date_range[2]
          /\ out.filtered_df[i][DateCol][1][3] > 0
    /\ \E j \in 1..Len(df.rows) : df.rows[j][DateCol] = <<>>

\* C8: applying the same criteria to the filter's own output changes nothing:
\* same rows, same order.
C8_ApplyIdempotent ==
    Filtered => FilterRows(df.columns, widgets, out.filtered_df) = out.filtered_df

\* user-chosen criteria removed some rows but not all
C8_Witness ==
    /\ Filtered
    /\ widgets # DefaultWidgets(df)
    /\ out.filtered_df # <<>>
    /\ Len(out.filtered_df) < Len(df.rows)

\* C9: the latest-month scope is exactly the filtered rows dated from the first
\* day of the month of max(Issued Date), at any time of that day, up to
\* max(Issued Date); every such row is a row of the filtered table.
C9_LatestMonthWindow ==
    (out.status = "ok" /\ DateCol \in df.columns) =>
        LET latest == MaxTs(NonNull(out.filtered_df, DateCol))
        IN  out.latest_month_df =
                SelectSeq(out.filtered_df,
                    LAMBDA r : /\ Len(r[DateCol]) = 1
                               /\ r[DateCol][1][1] = latest[1]
                               /\ r[DateCol][1][2] >= 1
                               /\ TsLeq(r[DateCol][1], latest))

\* the ten per-dimension aggregation results (the monthly trend is not one)
DimensionCharts == Range(ChartVars) \ {"monthly_data"}

\* the table an aggregation result is computed over
ScopeRows(name) == IF name \in LatestCharts THEN out.latest_month_df ELSE out.filtered_df

\* the metric of a chart over the rows whose key is in keys: the row count for
\* the product charts, the premium (a null premium adds nothing) otherwise
RECURSIVE MetricOver(_, _, _)
MetricOver(rows, name, keys) ==
    IF rows = <<>> THEN 0
    ELSE (IF Len(rows[1][ChartCol(name)]) = 1 /\ rows[1][ChartCol(name)][1] \in keys
          THEN (IF ChartCol(name) = ProductCol THEN 1
                ELSE IF Len(rows[1][PremiumCol]) = 1 THEN rows[1][PremiumCol][1] ELSE 0)
          ELSE 0)
         + MetricOver(Tail(rows), name, keys)

ResultKeys(name) == { out.charts[name][i].key : i \in 1..Len(out.charts[name]) }

ResultSum(name) == SeqSum([i \in 1..Len(out.charts[name]) |-> out.charts[name][i].value])

\* all non-null keys of the chart's column in its scope
ScopeKeys(name) == NonNull(ScopeRows(name), ChartCol(name))

\* C10 as claimed: for every dimension and scope, the values of the aggregation
\* result add up to the metric over all scoped rows with a non-null key.
C10_SumOverAllGroups ==
    \A name \in DimensionCharts :
        name \in out.names =>
            ResultSum(name) = MetricOver(ScopeRows(name), name, ScopeKeys(name))

\* groups a chart keeps: all for category, 10 for rankings, 8 for products
KeptGroups(name) ==
    IF ChartCol(name) = ProductCol THEN DistributionTopN ELSE RankingTopN

\* C10 amended: the values of an aggregation result add up to the metric over
\* the scoped rows whose key is one of the result's groups.  The result holds
\* every non-null key, and so adds up to the metric over all rows with a
\* non-null key, for category always and for the other dimensions when there
\* are at most 10 (product: 8) distinct keys; with more keys it holds exactly
\* 10 (8) of them.
C10_SumOverKeptGroups ==
    \A name \in DimensionCharts :
        name \in out.names =>
            /\ ResultSum(name) = MetricOver(ScopeRows(name), name, ResultKeys(name))
            /\ ResultKeys(name) \subseteq ScopeKeys(name)
            /\ Len(out.charts[name]) = Cardinality(ResultKeys(name))
            /\ (ChartCol(name) = CategoryCol \/ Cardinality(ScopeKeys(name)) <= KeptGroups(name))
                  => /\ ResultKeys(name) = ScopeKeys(name)
                     /\ ResultSum(name) = MetricOver(ScopeRows(name), name, ScopeKeys(name))
            /\ (ChartCol(name) # CategoryCol /\ Cardinality(ScopeKeys(name)) > KeptGroups(name))
                  => Cardinality(ResultKeys(name)) = KeptGroups(name)

\* a ranking was cut to its top 10 while the untruncated category result of
\* the same scope holds more groups
C10_Witness ==
    /\ out.status = "ok"
    /\ Cardinality(ScopeKeys("insurer_overall")) > RankingTopN
    /\ Len(out.charts["insurer_overall"]) = RankingTopN
    /\ Len(out.charts["category_overall"]) > RankingTopN

\* the entries of the result of chart `name`
Result(name) == out.charts[name]

\* the position in the chart's scope of the first row that carries the key
FirstRow(name, key) ==
    CHOOSE i \in 1..Len(ScopeRows(name)) :
        /\ ScopeRows(name)[i][ChartCol(name)] = <<key>>
        /\ \A k \in 1..(i - 1) : ScopeRows(name)[k][ChartCol(name)] # <<key>>

\* C11: every aggregation result is in descending order of its
\* metric, and groups of equal metric appear in the order in which their keys
\* are first met in the rows of the scope.
C11_TiesInFirstSeenOrder ==
    \A name \in DimensionCharts :
        name \in out.names =>
            \A i, j \in 1..Len(Result(name)) :
                i < j =>
                    \/ Result(name)[i].value > Result(name)[j].value
                    \/ /\ Result(name)[i].value = Result(name)[j].value
                       /\ FirstRow(name, Result(name)[i].key) < FirstRow(name, Result(name)[j].key)

\* the metric of one group of a chart over the chart's scope
GroupMetric(name, key) == MetricOver(ScopeRows(name), name, {key})

\* group a may stand before group b in a descending ordering of a chart
Precedes(name, a, b) == GroupMetric(name, a) >= GroupMetric(name, b)

\* the charts that are cut to their first entries
TruncatedCharts == { name \in DimensionCharts : ChartCol(name) # CategoryCol }

\* the premium of every row of a table, null premiums adding nothing
PremiumOfRows(rows) ==
    IF PremiumCol \in df.columns
    THEN SeqSum([i \in 1..Len(rows) |->
                    IF Len(rows[i][PremiumCol]) = 1 THEN rows[i][PremiumCol][1] ELSE 0])
    ELSE 0

\* C12: each ranking result (insurer, manager, branch) is the first
\* min(10, number of groups) entries of a full descending ordering of its
\* groups and each product result the first min(8, number of groups): that
\* many different groups, in descending order, none below a group left out;
\* the four summary metrics are computed over every row of the filtered table
\* and of the latest-month scope, rows of truncated groups included.
C12_TruncationOnlyInCharts ==
    /\ \A name \in TruncatedCharts :
          name \in out.names =>
              /\ Len(Result(name)) =
                    IF Cardinality(ScopeKeys(name)) < KeptGroups(name)
                    THEN Cardinality(ScopeKeys(name)) ELSE KeptGroups(name)
              /\ Cardinality(ResultKeys(name)) = Len(Result(name))
              /\ \A i \in 1..Len(Result(name)) :
                    /\ Result(name)[i].key \in ScopeKeys(name)
                    /\ Result(name)[i].value = GroupMetric(name, Result(name)[i].key)
                    /\ \A j \in (i + 1)..Len(Result(name)) :
                          Precedes(name, Result(name)[i].key, Result(name)[j].key)
                    /\ \A key \in ScopeKeys(name) \ ResultKeys(name) :
                          Precedes(name, Result(name)[i].key, key)
    /\ out.status = "ok" =>
          /\ out.total_premium = PremiumOfRows(out.filtered_df)
          /\ out.total_policies = Len(out.filtered_df)
          /\ out.latest_premium = PremiumOfRows(out.latest_month_df)
          /\ out.latest_policies = Len(out.latest_month_df)

\* the insurer ranking and the product distribution were both cut, in the
\* overall and in the latest-month scope, and the metrics count the rows of
\* the groups that were cut away
C12_Witness ==
    /\ out.status = "ok"
    /\ \A name \in {"insurer_overall", "insurer_latest", "product_overall", "product_latest"} :
          /\ Cardinality(ScopeKeys(name)) > KeptGroups(name)
          /\ Len(Result(name)) = KeptGroups(name)
    /\ out.total_premium > ResultSum("insurer_overall")
    /\ out.latest_premium > ResultSum("insurer_latest")
    /\ out.total_policies > ResultSum("product_overall")
    /\ out.latest_policies > ResultSum("product_latest")

\* what the page shows besides the report section
OnScreen(o) ==
    <<o.status, o.error, o.filtered_df, o.latest_month_df, o.label, o.window,
      o.latest_premium, o.latest_policies, o.total_premium, o.total_policies, o.charts>>

\* the texts of the failures a report generation can meet
PdfFailures == PdfNameErrors \cup {"chart rendering failed", "document assembly failed"}

\* C13: when a chart rendering or a document assembly step of a report
\* generation fails, the generation is aborted at that step: no report, also
\* no partial one, is offered for download, the text of the failure is shown,
\* and the filtered table, the latest-month scope, the metrics and the
\* aggregations on the page are what they were before the click.
C13_FailedReportAborts ==
    [][ (out'.pdf.status # "none" /\ out'.pdf.status # "ready") =>
            /\ out'.pdf.status = "error"
            /\ out'.pdf.download = FALSE
            /\ out'.pdf.error \in PdfFailures
            /\ Len(out'.pdf.log) < PdfStepCount
            /\ OnScreen(out') = OnScreen(out)
            /\ out'.status = "ok"
            /\ df' = df /\ widgets' = widgets ]_vars

\* a generation that failed while composing a page, after all charts and
\* some pages were done, on a page that shows rows and aggregations
C13_Witness ==
    /\ out.pdf.status = "error"
    /\ out.pdf.error = "document assembly failed"
    /\ \E i \in 1..Len(out.pdf.log) : out.pdf.log[i].kind = "page"
    /\ out.filtered_df # <<>>
    /\ out.charts["category_overall"] # <<>>

\* the entries of a report log of the given kind, in log order
LogOfKind(kind) == SelectSeq(out.pdf.log, LAMBDA e : e.kind = kind)

\* the pages of a report as the claim lists them: dimension, then the chart
\* of the latest month, then the overall chart
ClaimedDimensionPages ==
    << <<"Category", "category_latest", "category_overall">>,
       <<"Insurers", "insurer_latest", "insurer_overall">>,
       <<"Products", "product_latest", "product_overall">>,
       <<"Managers", "manager_latest", "manager_overall">>,
       <<"Branches", "branch_latest", "branch_overall">> >>

\* C14: a report that was generated has, in this order, a title page with the
\* generation timestamp, the latest-month premium, the overall premium and the
\* total policy count, one page each for category, insurer, product, manager
\* and branch with the latest-month chart before the overall chart, and the
\* monthly trend page last; all eleven chart images were rendered before the
\* first page was composed.
C14_ReportPageOrder ==
    out.pdf.status = "ready" =>
        LET charts == LogOfKind("chart")
            pages == LogOfKind("page")
        IN  /\ out.pdf.log = charts \o pages
            /\ Len(charts) = 11
            /\ Cardinality({ charts[i].name : i \in 1..Len(charts) }) = 11
            /\ Len(pages) = 7
            /\ pages[1].name = "Insurance Dashboard Report"
            /\ pages[1].stamped
            /\ pages[1].images = <<>>
            /\ pages[1].figures = <<out.latest_premium, out.total_premium, out.total_policies>>
            /\ \A k \in 1..5 :
                  /\ pages[k + 1].name = ClaimedDimensionPages[k][1]
                  /\ pages[k + 1].images = Tail(ClaimedDimensionPages[k])
            /\ pages[7].name = "Monthly Premium Trend"
            /\ pages[7].images = <<"monthly_data">>
            /\ \A k \in 2..7 :
                  \A j \in 1..Len(pages[k].images) :
                      \E i \in 1..Len(charts) : charts[i].name = pages[k].images[j]

\* a report was generated for a table with rows in both scopes
C14_Witness ==
    /\ out.pdf.status = "ready"
    /\ out.pdf.download
    /\ out.total_policies > out.latest_policies
    /\ out.latest_policies > 0

\* a single run of the script on the uploaded table with the given criteria
FreshRun(w) == RunScript(df, w, FALSE, 0)

RECURSIVE IsSubSeq(_, _)
IsSubSeq(a, b) ==
    IF a = <<>> THEN TRUE
    ELSE IF b = <<>> THEN FALSE
    ELSE IF a[1] = b[1] THEN IsSubSeq(Tail(a), Tail(b))
    ELSE IsSubSeq(a, Tail(b))

\* C16: after every run the filtered table is an order-preserving sub-sequence
\* of the input table (each filtered row an input row with its cells as they
\* are in the input, no row added or repeated, input order kept), and no run
\* of the page - filtering, aggregation, report - changes the input table.
C16_FilteredIsSubsequence ==
    [][ /\ Filtered' => IsSubSeq(out'.filtered_df, df'.rows)
        /\ Filtered' => IsSubSeq(out'.latest_month_df, out'.filtered_df)
        /\ Uploaded => df' = df ]_vars

\* chosen criteria removed the first of two different rows and kept the second
C16_Witness ==
    /\ Filtered
    /\ interactions > 0
    /\ widgets # DefaultWidgets(df)
    /\ Len(df.rows) = 2
    /\ df.rows[1] # df.rows[2]
    /\ out.filtered_df = <<df.rows[2]>>

\* the current criteria with every selection that holds "All" replaced by
\* "All" alone
OnlyAllWhereAll ==
    [widgets EXCEPT !.selected =
        [c \in DOMAIN widgets.selected |->
            IF All \in widgets.selected[c] THEN {All} ELSE widgets.selected[c]]]

\* the present filter dimensions
PresentDims == { c \in Range(FilterDims) : c \in df.columns }

\* C17: a categorical selection constrains the table only when it does not
\* hold "All".  A selection of "All" together with values gives the table that
\* "All" alone gives (rows with other values and rows with a null key stay);
\* a selection without "All" keeps only rows whose key is one of its values;
\* an empty selection leaves the filtered table empty.
C17_AllMeansNoConstraint ==
    Filtered =>
        /\ out.filtered_df = ApplyFilters(df, OnlyAllWhereAll).rows
        /\ \A c \in PresentDims :
              All \notin widgets.selected[c] =>
                  \A i \in 1..Len(out.filtered_df) :
                      /\ Len(out.filtered_df[i][c]) = 1
                      /\ out.filtered_df[i][c][1] \in widgets.selected[c]
        /\ \A c \in PresentDims :
              widgets.selected[c] = {} => out.filtered_df = <<>>

\* "All" is selected together with a value, and a row whose key is null stays
C17_Witness ==
    /\ Filtered
    /\ \E c \in PresentDims :
          /\ All \in widgets.selected[c]
          /\ widgets.selected[c] # {All}
          /\ \E i \in 1..Len(out.filtered_df) : out.filtered_df[i][c] = <<>>

\* the uploaded table taken as a table without its Issued Date column
WithoutDateColumn == [df EXCEPT !.columns = @ \ {DateCol}]

\* C18: while the date control holds a single endpoint the date filter is
\* inactive: the filtered table is the one the other filters alone give, as
\* if the table had no Issued Date column, so no row is removed for its date
\* and rows with a null Issued Date stay; once the control holds both
\* endpoints every filtered row has a non-null date within them.
C18_OneEndpointNoDateFilter ==
    (Filtered /\ DateCol \in df.columns) =>
        /\ Len(widgets.date_range) = 1 =>
              out.filtered_df = ApplyFilters(WithoutDateColumn, widgets).rows
        /\ Len(widgets.date_range) = 2 =>
              \A i \in 1..Len(out.filtered_df) :
                  /\ Len(out.filtered_df[i][DateCol]) = 1
                  /\ DayNumber(widgets.date_range[1])
                        <= out.filtered_df[i][DateCol][1][1] * 100 + out.filtered_df[i][DateCol][1][2]
                  /\ out.filtered_df[i][DateCol][1][1] * 100 + out.filtered_df[i][DateCol][1][2]
                        <= DayNumber(widgets.date_range[2])

\* one endpoint is set, a row with a null Issued Date that the full default
\* interval had removed is back in the filtered table, and another filter
\* still removes a row
C18_Witness ==
    /\ Filtered
    /\ Len(widgets.date_range) = 1
    /\ \E i \in 1..Len(out.filtered_df) : out.filtered_df[i][DateCol] = <<>>
    /\ Len(out.filtered_df) > Len(FreshRun(DefaultWidgets(df)).filtered_df)
    /\ Len(out.filtered_df) < Len(df.rows)

====
